---------------------------- MODULE Spec2Model ----------------------------
(***************************************************************************)
(* A model of pbalign's pipeline runner (pbalign/pbalignrunner.py) and of  *)
(* its file utilities (pbalign/utils/fileutil.py).                         *)
(*                                                                         *)
(* Paths are sequences of one-character strings, so that escaping,         *)
(* normalisation and extension splitting are computed character by         *)
(* character, as os.path and str.replace do.                               *)
(***************************************************************************)
EXTENDS Integers, Sequences, FiniteSets, TLC

VARIABLES
    cwd,          \* os.getcwd(), read by os.path.abspath
    pathVals,     \* SpecPath: a path and the results of the calls made on it
    pathOps,      \* SpecPath: the names of the calls, pathVals[i+1] = op_i(pathVals[i])
    pathFmts,     \* SpecPath: getFileFormat of pathVals[1..Len(pathFmts)]
    fs,           \* the files on the filesystem: the kernel's name |-> what the file holds
    links,        \* the symbolic links on the filesystem: name |-> target
    fofnLines,    \* the lines of the manifest file, as readlines() returns them
    fofnCall,     \* SpecFofn: the last call of getFilesFromFOFN and its result
    chkCall,      \* SpecFofn: the last call of checkInputFile and its result
    args,         \* PBAlignRunner.args: the parsed options
    fileNames,    \* PBAlignRunner.fileNames: the PBAlignFiles of the run
    output_dataset_type,  \* PBAlignRunner._output_dataset_type
    pc,           \* the statement of run() to execute next, "done" or "failed"
    exc,          \* the exception that ended run(): its type and the call that raised it
    calls,        \* the stages run() has executed, in order, each with how it ended
    tmpFiles,     \* the paths the TempFileManager tracks
    cleaned,      \* what _cleanUp did: "no" until it is called
    dataset,      \* the dataset _output built and wrote for XML output
    refXml,       \* the reference.info.xml files: name |-> what ElementTree finds in it
    refSet,       \* what ReferenceSet(refpath).toFofn() gives for the XML dataset
    refCall       \* SpecRef: the last call of checkReferencePath and its result

pathVars == <<pathVals, pathOps, pathFmts>>
fsVars == <<fs, links>>
fofnVars == <<fofnLines, fofnCall, chkCall>>
runVars == <<args, fileNames, output_dataset_type, pc, exc, calls, tmpFiles, cleaned, dataset>>
refVars == <<refXml, refSet, refCall>>

None == "None"

(***************************************************************************)
(* Bounds of the model.                                                    *)
(***************************************************************************)
MaxPathLen == 4
MaxCalls == 2
MaxLines == 2
MaxResources == 2

(***************************************************************************)
(* Characters.                                                             *)
(***************************************************************************)
\* str.lower() on the upper-case letters the model's paths use.
UpperToLower ==
    "A" :> "a" @@ "B" :> "b" @@ "H" :> "h" @@ "L" :> "l" @@ "M" :> "m" @@
    "S" :> "s" @@ "X" :> "x" @@ "F" :> "f" @@ "T" :> "t" @@ "W" :> "w"

lower(s) ==
    [i \in 1..Len(s) |-> IF s[i] \in DOMAIN UpperToLower THEN UpperToLower[s[i]] ELSE s[i]]

\* The code points Python compares strings by.
CharCode ==
    "\t" :> 9 @@ "\n" :> 10 @@ " " :> 32 @@ "." :> 46 @@ "/" :> 47 @@
    "5" :> 53 @@ "A" :> 65 @@ "B" :> 66 @@ "H" :> 72 @@ "L" :> 76 @@
    "M" :> 77 @@ "S" :> 83 @@ "X" :> 88 @@ "\\" :> 92 @@
    "a" :> 97 @@ "b" :> 98 @@ "c" :> 99 @@ "d" :> 100 @@ "e" :> 101 @@
    "f" :> 102 @@ "g" :> 103 @@ "h" :> 104 @@ "i" :> 105 @@ "l" :> 108 @@
    "m" :> 109 @@ "n" :> 110 @@ "o" :> 111 @@ "p" :> 112 @@ "r" :> 114 @@
    "s" :> 115 @@ "t" :> 116 @@ "u" :> 117 @@ "w" :> 119 @@ "x" :> 120 @@
    "~" :> 126

(***************************************************************************)
(* str.replace, str.find, str.rfind, str.split on character sequences.     *)
(***************************************************************************)
RECURSIVE replaceEscapedSpace(_)
\* s.replace(r'\ ', ' '): left to right, occurrences do not overlap.
replaceEscapedSpace(s) ==
    IF Len(s) = 0 THEN <<>>
    ELSE IF Len(s) >= 2 /\ s[1] = "\\" /\ s[2] = " "
         THEN <<" ">> \o replaceEscapedSpace(SubSeq(s, 3, Len(s)))
         ELSE <<s[1]>> \o replaceEscapedSpace(Tail(s))

RECURSIVE replaceSpace(_)
\* s.replace(' ', r'\ ')
replaceSpace(s) ==
    IF Len(s) = 0 THEN <<>>
    ELSE IF s[1] = " "
         THEN <<"\\", " ">> \o replaceSpace(Tail(s))
         ELSE <<s[1]>> \o replaceSpace(Tail(s))

\* s.rfind(c) + 1: the last index of c in s, 0 when c is not in s.
rfind(s, c) ==
    IF \E i \in 1..Len(s) : s[i] = c
    THEN CHOOSE i \in 1..Len(s) : s[i] = c /\ \A j \in (i+1)..Len(s) : s[j] # c
    ELSE 0

\* s.find(c, from - 1) + 1: the first index >= from of c in s, 0 when there is none.
find(s, c, from) ==
    IF \E i \in from..Len(s) : s[i] = c
    THEN CHOOSE i \in from..Len(s) : s[i] = c /\ \A j \in from..(i-1) : s[j] # c
    ELSE 0

RECURSIVE split(_, _)
\* s.split(sep) for a one-character sep: Len(result) = 1 + the number of seps.
split(s, sep) ==
    LET i == find(s, sep, 1) IN
    IF i = 0 THEN <<s>>
    ELSE <<SubSeq(s, 1, i - 1)>> \o split(SubSeq(s, i + 1, Len(s)), sep)

RECURSIVE join(_, _)
\* sep.join(comps)
join(comps, sep) ==
    IF Len(comps) = 0 THEN <<>>
    ELSE IF Len(comps) = 1 THEN comps[1]
    ELSE comps[1] \o sep \o join(Tail(comps), sep)

startswith(s, prefix) ==
    Len(s) >= Len(prefix) /\ SubSeq(s, 1, Len(prefix)) = prefix

(***************************************************************************)
(* os.path (posixpath), as real_ppath calls it.                            *)
(***************************************************************************)
\* The invoking user's home directory ($HOME).
HomeDir == <<"/", "h">>

RECURSIVE rstripSlash(_)
rstripSlash(s) ==
    IF Len(s) > 0 /\ s[Len(s)] = "/" THEN rstripSlash(SubSeq(s, 1, Len(s) - 1)) ELSE s

\* posixpath.expanduser: "~" and "~/..." expand to $HOME; "~name" names a user
\* the password database does not know, and is returned unchanged.
expanduser(path) ==
    IF ~startswith(path, <<"~">>) THEN path
    ELSE LET f == find(path, "/", 2)
             i == IF f = 0 THEN Len(path) + 1 ELSE f
         IN IF i # 2 THEN path
            ELSE LET r == rstripSlash(HomeDir) \o SubSeq(path, i, Len(path))
                 IN IF r = <<>> THEN <<"/">> ELSE r

RECURSIVE normComps(_, _, _)
\* The loop of posixpath.normpath over the components of the path.
normComps(comps, initial_slashes, new_comps) ==
    IF Len(comps) = 0 THEN new_comps
    ELSE LET comp == comps[1]
             rest == Tail(comps)
         IN IF comp = <<>> \/ comp = <<".">>
            THEN normComps(rest, initial_slashes, new_comps)
            ELSE IF comp # <<".", ".">>
                    \/ (initial_slashes = 0 /\ Len(new_comps) = 0)
                    \/ (Len(new_comps) > 0 /\ new_comps[Len(new_comps)] = <<".", ".">>)
                 THEN normComps(rest, initial_slashes, Append(new_comps, comp))
                 ELSE IF Len(new_comps) > 0
                      THEN normComps(rest, initial_slashes,
                                     SubSeq(new_comps, 1, Len(new_comps) - 1))
                      ELSE normComps(rest, initial_slashes, new_comps)

normpath(path) ==
    IF path = <<>> THEN <<".">>
    ELSE LET initial_slashes ==
                 IF ~startswith(path, <<"/">>) THEN 0
                 ELSE IF startswith(path, <<"/", "/">>) /\ ~startswith(path, <<"/", "/", "/">>)
                      THEN 2 ELSE 1
             body == join(normComps(split(path, "/"), initial_slashes, <<>>), <<"/">>)
             r == [i \in 1..initial_slashes |-> "/"] \o body
         IN IF r = <<>> THEN <<".">> ELSE r

\* posixpath.join(a, b) for the two arguments abspath gives it.
pathjoin(a, b) ==
    IF startswith(b, <<"/">>) THEN b
    ELSE IF a = <<>> \/ a[Len(a)] = "/" THEN a \o b
    ELSE a \o <<"/">> \o b

abspath(path) ==
    normpath(IF startswith(path, <<"/">>) THEN path ELSE pathjoin(cwd, path))

\* posixpath.splitext: <<root, ext>>; leading dots of the file name are no extension.
splitext(p) ==
    LET sepIndex == rfind(p, "/")
        dotIndex == rfind(p, ".")
    IN IF dotIndex > sepIndex /\ \E k \in (sepIndex + 1)..(dotIndex - 1) : p[k] # "."
       THEN <<SubSeq(p, 1, dotIndex - 1), SubSeq(p, dotIndex, Len(p))>>
       ELSE <<p, <<>>>>

dirname(p) ==
    LET i == rfind(p, "/")
        head == SubSeq(p, 1, i)
    IN IF head # <<>> /\ head # [k \in 1..Len(head) |-> "/"] THEN rstripSlash(head) ELSE head

(***************************************************************************)
(* pbalign/utils/fileutil.py                                               *)
(***************************************************************************)
FILE_FORMATS ==
    {"FASTA", "PLS_H5", "PLX_H5", "BAS_H5", "BAX_H5", "FOFN", "SAM", "CMP_H5",
     "RGN_H5", "SA", "XML", "UNKNOWN", "CCS_H5", "BAM"}

VALID_INPUT_FORMATS ==
    {"FASTA", "PLS_H5", "PLX_H5", "BAS_H5", "BAX_H5", "FOFN", "CCS_H5", "BAM", "XML"}

VALID_REGIONTABLE_FORMATS == {"RGN_H5", "FOFN"}

VALID_OUTPUT_FORMATS == {"CMP_H5", "SAM", "BAM", "XML"}

\* real_ppath with the replacement of escaped spaces left out.
real_ppath_keeps_escapes(fn) ==
    abspath(expanduser(fn))

real_ppath(fn) ==
    replaceEscapedSpace(abspath(expanduser(fn)))

real_upath(fn) ==
    replaceSpace(real_ppath(fn))

isValidInputFormat(ff) == ff \in VALID_INPUT_FORMATS

isValidOutputFormat(ff) == ff \in VALID_OUTPUT_FORMATS

isValidRegionTableFormat(ff) == ff \in VALID_REGIONTABLE_FORMATS

\* getFileFormat whose last line names FILE_FORMATS.UNKOWN, as its docstring
\* spells it: the attribute does not exist and the call fails.
getFileFormat_unkown(filename) ==
    LET base == splitext(filename)[1]
        ext == lower(splitext(filename)[2])
    IN  IF ext \in {<<".", "f", "a">>, <<".", "f", "a", "s", "t", "a">>, <<".", "f", "s", "t", "a">>, <<".", "f", "n", "a">>} THEN "FASTA"
        ELSE IF ext = <<".", "s", "a", "m">> THEN "SAM"
        ELSE IF ext = <<".", "b", "a", "m">> THEN "BAM"
        ELSE IF ext = <<".", "s", "a">> THEN "SA"
        ELSE IF ext = <<".", "f", "o", "f", "n">> THEN "FOFN"
        ELSE IF ext = <<".", "x", "m", "l">> THEN "XML"
        ELSE IF ext = <<".", "h", "5">>
             THEN LET ext2 == lower(splitext(base)[2])
                  IN  IF ext2 = <<".", "p", "l", "s">> THEN "PLS_H5"
                      ELSE IF ext2 = <<".", "p", "l", "x">> THEN "PLX_H5"
                      ELSE IF ext2 = <<".", "b", "a", "s">> THEN "BAX_H5"
                      ELSE IF ext2 = <<".", "b", "a", "x">> THEN "BAX_H5"
                      ELSE IF ext2 = <<".", "c", "m", "p">> THEN "CMP_H5"
                      ELSE IF ext2 = <<".", "r", "g", "n">> THEN "RGN_H5"
                      ELSE IF ext2 = <<".", "c", "c", "s">> THEN "CCS_H5"
                      ELSE "UNKNOWN"
        ELSE "AttributeError"

getFileFormat(filename) ==
    LET base == splitext(filename)[1]
        ext == lower(splitext(filename)[2])
    IN  IF ext \in {<<".", "f", "a">>, <<".", "f", "a", "s", "t", "a">>, <<".", "f", "s", "t", "a">>, <<".", "f", "n", "a">>} THEN "FASTA"
        ELSE IF ext = <<".", "s", "a", "m">> THEN "SAM"
        ELSE IF ext = <<".", "b", "a", "m">> THEN "BAM"
        ELSE IF ext = <<".", "s", "a">> THEN "SA"
        ELSE IF ext = <<".", "f", "o", "f", "n">> THEN "FOFN"
        ELSE IF ext = <<".", "x", "m", "l">> THEN "XML"
        ELSE IF ext = <<".", "h", "5">>
             THEN LET ext2 == lower(splitext(base)[2])
                  IN  IF ext2 = <<".", "p", "l", "s">> THEN "PLS_H5"
                      ELSE IF ext2 = <<".", "p", "l", "x">> THEN "PLX_H5"
                      ELSE IF ext2 = <<".", "b", "a", "s">> THEN "BAX_H5"
                      ELSE IF ext2 = <<".", "b", "a", "x">> THEN "BAX_H5"
                      ELSE IF ext2 = <<".", "c", "m", "p">> THEN "CMP_H5"
                      ELSE IF ext2 = <<".", "r", "g", "n">> THEN "RGN_H5"
                      ELSE IF ext2 = <<".", "c", "c", "s">> THEN "CCS_H5"
                      ELSE "UNKNOWN"
        ELSE "UNKNOWN"


\* Directories that exist whatever files do.
FsDirs == {<<"/">>, <<"/", "w">>, <<"/", "w", " ", "d">>}

\* os.path.exists(ff): the kernel looks the name up as it is written; a link
\* whose target is gone does not exist.
exists(ff) ==
    \/ ff \in DOMAIN fs
    \/ ff \in FsDirs
    \/ (ff \in DOMAIN links /\ links[ff] \in DOMAIN fs)

isExist(ff) ==
    IF ff = <<>> THEN FALSE ELSE exists(ff)

Whitespace == {" ", "\t", "\n"}

RECURSIVE lstrip(_)
lstrip(s) ==
    IF Len(s) > 0 /\ s[1] \in Whitespace THEN lstrip(Tail(s)) ELSE s

RECURSIVE rstrip(_)
rstrip(s) ==
    IF Len(s) > 0 /\ s[Len(s)] \in Whitespace THEN rstrip(SubSeq(s, 1, Len(s) - 1)) ELSE s

\* str.strip()
strip(s) == rstrip(lstrip(s))

RECURSIVE strLess(_, _)
\* a < b as Python compares two strings: by code point, a proper prefix first.
strLess(a, b) ==
    IF Len(b) = 0 THEN FALSE
    ELSE IF Len(a) = 0 THEN TRUE
    ELSE IF a[1] # b[1] THEN CharCode[a[1]] < CharCode[b[1]]
    ELSE strLess(Tail(a), Tail(b))

strLeq(a, b) == a = b \/ strLess(a, b)

RECURSIVE insertSorted(_, _)
insertSorted(sorted, x) ==
    IF Len(sorted) = 0 THEN <<x>>
    ELSE IF strLess(x, sorted[1]) THEN <<x>> \o sorted
    ELSE <<sorted[1]>> \o insertSorted(Tail(sorted), x)

RECURSIVE sorted(_)
sorted(lines) ==
    IF Len(lines) = 0 THEN <<>>
    ELSE insertSorted(sorted(SubSeq(lines, 1, Len(lines) - 1)), lines[Len(lines)])

\* getFilesFromFOFN's lines with the call of lines.sort() left out.
sortLines_keeps_order(lines) == lines

\* lines.sort(), on the lines as read: the line ends and the leading blanks
\* are still there.
sortLines(lines) == sorted(lines)

\* f.readlines() of the manifest opened at path.
readlines(path) == fofnLines

getFilesFromFOFN(fofnname) ==
    LET lines == sortLines(readlines(real_ppath(fofnname)))
    IN  [i \in 1..Len(lines) |-> real_upath(strip(lines[i]))]

\* The loop of checkInputFile over fileList raises at the first f with
\* not isExist(f).
anyMissing(fileList) ==
    \E i \in 1..Len(fileList) : ~isExist(fileList[i])

\* The exception checkInputFile raises ("exc", with the check that raised it
\* as "err"), or the path it returns ("ret", with exc = None).
checkInputFile(filename, validFormats) ==
    LET fn == real_ppath(filename) IN
    IF getFileFormat(fn) \notin validFormats
    THEN [exc |-> "IOError", err |-> "format", ret |-> <<>>]
    ELSE IF ~isExist(fn)
    THEN [exc |-> "IOError", err |-> "missing", ret |-> <<>>]
    ELSE IF getFileFormat(fn) = "FOFN"
    THEN LET fileList == getFilesFromFOFN(fn) IN
         IF Len(fileList) = 0
         THEN [exc |-> "ValueError", err |-> "empty", ret |-> <<>>]
         ELSE IF anyMissing(fileList)
         THEN [exc |-> "IOError", err |-> "missing", ret |-> <<>>]
         ELSE [exc |-> None, err |-> None, ret |-> real_upath(fn)]
    ELSE [exc |-> None, err |-> None, ret |-> real_upath(fn)]

(***************************************************************************)
(* Reference repositories: ReferenceInfo and checkReferencePath.           *)
(***************************************************************************)
\* Body(value), with value computed once however often Body reads it.
With(value, Body(_)) == CHOOSE r \in {Body(v) : v \in {value}} : TRUE

\* A path that may be None.
NoPath == [some |-> FALSE, path |-> <<>>]

SomePath(p) == [some |-> TRUE, path |-> p]

\* s.find(sub) != -1
contains(s, sub) ==
    \E i \in 1..(Len(s) - Len(sub) + 1) : SubSeq(s, i, i + Len(sub) - 1) = sub

\* posixpath.split: <<head, tail>>, the head without its trailing slashes.
pathsplit(p) ==
    LET i == rfind(p, "/")
        head == SubSeq(p, 1, i)
    IN  <<IF head # <<>> /\ head # [k \in 1..Len(head) |-> "/"] THEN rstripSlash(head) ELSE head,
          SubSeq(p, i + 1, Len(p))>>

RECURSIVE commonprefix(_, _)
\* os.path.commonprefix of two lists of components.
commonprefix(a, b) ==
    IF Len(a) = 0 \/ Len(b) = 0 \/ a[1] # b[1] THEN <<>>
    ELSE <<a[1]>> \o commonprefix(Tail(a), Tail(b))

\* [x for x in p.split('/') if x]
components(p) == SelectSeq(split(p, "/"), LAMBDA x : x # <<>>)

\* posixpath.relpath(path), for a non-empty path: the way to path from the
\* working directory.
relpath(path) ==
    LET start_list == components(abspath(<<".">>))
        path_list == components(abspath(path))
        i == Len(commonprefix(start_list, path_list))
        rel_list == [k \in 1..(Len(start_list) - i) |-> <<".", ".">>]
                        \o SubSeq(path_list, i + 1, Len(path_list))
    IN  IF rel_list = <<>> THEN <<".">> ELSE join(rel_list, <<"/">>)

\* A ReferenceInfo whose construction raised e.
NoReferenceInfo(e) ==
    [exc |-> e, refFastaFile |-> NoPath, refSawriterFile |-> NoPath, adapterGffFile |-> NoPath]

RECURSIVE parseIndexFiles(_, _, _)
\* _parse: the loop over the index_file children of the reference element;
\* the last one of type sawriter is kept.
parseIndexFiles(nodes, dir, found) ==
    IF Len(nodes) = 0 THEN [exc |-> None, file |-> found]
    ELSE IF ~nodes[1].type.some THEN [exc |-> "AttributeError", file |-> found]
    ELSE IF lower(nodes[1].type.path) # <<"s", "a", "w", "r", "i", "t", "e", "r">> THEN parseIndexFiles(Tail(nodes), dir, found)
    ELSE IF nodes[1].text = <<>> THEN [exc |-> "ValueError", file |-> found]
    ELSE parseIndexFiles(Tail(nodes), dir,
                         SomePath(real_upath(pathjoin(dir, relpath(nodes[1].text)))))

RECURSIVE parseAnnotations(_, _)
\* _parse: the loop over annotations/annotation, left at the first of type
\* adapter.
parseAnnotations(annotations, dir) ==
    IF Len(annotations) = 0 THEN [exc |-> None, file |-> NoPath]
    ELSE IF annotations[1].type # <<"a", "d", "a", "p", "t", "e", "r">> THEN parseAnnotations(Tail(annotations), dir)
    ELSE IF ~annotations[1].file.some THEN [exc |-> "AttributeError", file |-> NoPath]
    ELSE IF annotations[1].file.path = <<>> THEN [exc |-> "TypeError", file |-> NoPath]
    ELSE [exc |-> None, file |-> SomePath(real_upath(pathjoin(dir, annotations[1].file.path)))]

\* ReferenceInfo._parse: the fields it sets, or the exception it raises.
ReferenceInfo_parse(selfFileName, dirname0) ==
    With(real_ppath(selfFileName), LAMBDA fileName : With(dirname0, LAMBDA dir :
    IF ~isExist(fileName) THEN NoReferenceInfo("IOError")
    ELSE IF fileName \notin DOMAIN refXml THEN NoReferenceInfo("ParseError")
    ELSE LET xml == refXml[fileName] IN
         IF ~xml.wellFormed THEN NoReferenceInfo("ParseError")
         ELSE IF ~xml.hasFile THEN NoReferenceInfo("AttributeError")
         ELSE IF ~xml.format.some THEN NoReferenceInfo("AttributeError")
         ELSE IF ~contains(lower(xml.format.path), <<"t", "e", "x", "t", "/", "f", "a", "s", "t", "a">>) THEN NoReferenceInfo("IOError")
         ELSE IF xml.text = <<>> THEN NoReferenceInfo("ValueError")
         ELSE With(parseIndexFiles(xml.index_files, dir, NoPath), LAMBDA index :
              With(parseAnnotations(xml.annotations, dir), LAMBDA gff :
                  IF index.exc # None THEN NoReferenceInfo(index.exc)
                  ELSE IF gff.exc # None THEN NoReferenceInfo(gff.exc)
                  ELSE [exc |-> None,
                        refFastaFile |-> SomePath(real_upath(pathjoin(dir, relpath(xml.text)))),
                        refSawriterFile |-> index.file,
                        adapterGffFile |-> gff.file]))))

\* ReferenceInfo(fileName)
ReferenceInfo(fileName0) ==
    With(real_ppath(fileName0), LAMBDA fileName :
        IF getFileFormat(fileName) # "XML" THEN NoReferenceInfo("ValueError")
        ELSE ReferenceInfo_parse(real_upath(fileName), dirname(fileName)))

ReferenceInfoName == <<"r", "e", "f", "e", "r", "e", "n", "c", "e", ".", "i", "n", "f", "o", ".", "x", "m", "l">>

\* A checkReferencePath that raised e: err names the raise statement.
ReferenceError(e, err, refpath) ==
    [exc |-> e, err |-> err, refpath |-> refpath, fastaFile |-> NoPath,
     sawriterFile |-> NoPath, isWithinRepository |-> FALSE, adapterGffFile |-> NoPath]

\* checkReferencePath: fastaFiles[0] without its 'file:' prefix.
stripScheme(uri) ==
    IF startswith(uri, <<"f", "i", "l", "e", ":">>) THEN SubSeq(uri, 6, Len(uri)) ELSE uri

\* checkReferencePath: the FASTA file the argument itself names, and the
\* reference.info.xml to look for.
directReference(refpath) ==
    IF getFileFormat(refpath) = "FASTA"
    THEN [exc |-> None, err |-> None, fastaFile |-> SomePath(refpath),
          refinfoxml |-> pathjoin(pathsplit(dirname(refpath))[1], ReferenceInfoName)]
    ELSE IF getFileFormat(refpath) = "XML"
    THEN IF refSet.exc # None
         THEN [exc |-> refSet.exc, err |-> "dataset", fastaFile |-> NoPath, refinfoxml |-> <<>>]
         ELSE IF Len(refSet.files) # 1
         THEN [exc |-> "Exception", err |-> "ambiguous", fastaFile |-> NoPath, refinfoxml |-> <<>>]
         ELSE [exc |-> None, err |-> None, fastaFile |-> SomePath(stripScheme(refSet.files[1])),
               refinfoxml |-> pathjoin(pathsplit(dirname(refpath))[1], ReferenceInfoName)]
    ELSE [exc |-> None, err |-> None, fastaFile |-> NoPath,
          refinfoxml |-> pathjoin(refpath, ReferenceInfoName)]

\* checkReferencePath with a missing reference.info.xml never an error.
fallbackErr_never(fastaFile) == None

\* checkReferencePath: the except branch without a FASTA file to fall back on.
fallbackErr(fastaFile) ==
    IF ~fastaFile.some THEN "not-found" ELSE None

\* checkReferencePath without the test of the format of the FASTA file.
fastaFormatErr_unchecked(fastaFile) == None

\* checkReferencePath: the test of the format of the FASTA file.
fastaFormatErr(fastaFile) ==
    IF getFileFormat(fastaFile.path) # "FASTA" THEN "invalid" ELSE None

\* checkReferencePath: the try statement, which takes the files of the
\* ReferenceInfo, or keeps the FASTA file of the argument when ReferenceInfo
\* raises.
resolveReference(direct) ==
    With(ReferenceInfo(direct.refinfoxml), LAMBDA refinfoobj :
        IF refinfoobj.exc = None
        THEN [err |-> None, isWithinRepository |-> TRUE, fastaFile |-> refinfoobj.refFastaFile,
              sawriterFile |-> refinfoobj.refSawriterFile,
              adapterGffFile |-> refinfoobj.adapterGffFile]
        ELSE [err |-> fallbackErr(direct.fastaFile), isWithinRepository |-> FALSE,
              fastaFile |-> direct.fastaFile, sawriterFile |-> NoPath,
              adapterGffFile |-> NoPath])

\* checkReferencePath: the sawriter file returned, None when the one found
\* is no SA file or does not exist.
usableSawriterFile(sawriterFile) ==
    IF sawriterFile.some
       /\ (getFileFormat(sawriterFile.path) # "SA" \/ ~isExist(sawriterFile.path))
    THEN NoPath
    ELSE IF sawriterFile.some THEN SomePath(real_upath(sawriterFile.path))
    ELSE NoPath

checkReferencePath(inRefpath) ==
    With(real_ppath(inRefpath), LAMBDA refpath :
        IF ~isExist(refpath) THEN ReferenceError("IOError", "not-exist", refpath)
        ELSE With(directReference(refpath), LAMBDA direct :
            IF direct.exc # None THEN ReferenceError(direct.exc, direct.err, refpath)
            ELSE With(resolveReference(direct), LAMBDA found :
                IF found.err # None THEN ReferenceError("IOError", found.err, refpath)
                ELSE IF fastaFormatErr(found.fastaFile) # None
                THEN ReferenceError("IOError", fastaFormatErr(found.fastaFile), refpath)
                ELSE [exc |-> None, err |-> None, refpath |-> real_upath(refpath),
                      fastaFile |-> SomePath(real_upath(found.fastaFile.path)),
                      sawriterFile |-> usableSawriterFile(found.sawriterFile),
                      isWithinRepository |-> found.isWithinRepository,
                      adapterGffFile |-> found.adapterGffFile])))

(***************************************************************************)
(* pbalign/pbalignrunner.py                                                *)
(***************************************************************************)
ALGORITHM_CANDIDATES == {"blasr", "bowtie", "gmap"}

NoExc == [type |-> None, at |-> None]

\* The exception _createAlignService raises before it calls checkAvailability.
createAlignServiceExc(name) ==
    IF name \notin ALGORITHM_CANDIDATES THEN "ValueError"
    ELSE IF name \notin {"blasr", "bowtie", "gmap"} THEN "ValueError"
    ELSE None

\* args.readType as _makeSane leaves it.
makeSaneReadType(a, f) ==
    IF a.useccs = "useccsdenovo" \/ f.inputFileFormat = "CCS_H5" THEN "CCS" ELSE a.readType

\* _makeSane without the test of args.algorithm.
makeSaneExc_any_algorithm(a, f) ==
    LET outFormat == getFileFormat(f.outputFileName) IN
    IF outFormat = "CMP_H5" THEN "IOError"
    ELSE IF outFormat \in {"BAM", "XML"} /\ a.filterAdapterOnly THEN "ValueError"
    ELSE None

\* The exception _makeSane raises, None when the arguments are sane.
makeSaneExc(a, f) ==
    LET outFormat == getFileFormat(f.outputFileName) IN
    IF outFormat = "CMP_H5" THEN "IOError"
    ELSE IF outFormat = "BAM" \/ outFormat = "XML"
         THEN IF a.algorithm # "blasr" THEN "ValueError"
              ELSE IF a.filterAdapterOnly THEN "ValueError"
              ELSE None
    ELSE None

\* run() with the temporary file of the filter always a SAM file.
filteredSuffix_always_sam(outFormat) ==
    <<".", "s", "a", "m">>

\* run(): the suffix of the temporary file the filter writes.
filteredSuffix(outFormat) ==
    IF outFormat \in {"BAM", "XML"} THEN <<".", "b", "a", "m">> ELSE <<".", "s", "a", "m">>

\* run() with the filter started right after _makeSane.
afterStage_filter_first(stage, outFormat) ==
    CASE stage = "createAlignService" -> "makeSane"
      [] stage = "makeSane" -> "filter"
      [] stage = "filter" -> "alnRun"
      [] stage = "alnRun" -> IF outFormat \in {"BAM", "XML"} THEN "bamPost" ELSE "output"
      [] stage = "bamPost" -> "output"
      [] stage = "output" -> "cleanUp"
      [] stage = "cleanUp" -> "done"

\* run(): the statement that follows a stage that returned.
afterStage(stage, outFormat) ==
    CASE stage = "createAlignService" -> "makeSane"
      [] stage = "makeSane" -> "alnRun"
      [] stage = "alnRun" -> "filter"
      [] stage = "filter" -> IF outFormat \in {"BAM", "XML"} THEN "bamPost" ELSE "output"
      [] stage = "bamPost" -> "output"
      [] stage = "output" -> "cleanUp"
      [] stage = "cleanUp" -> "done"

\* run(): the argument of _cleanUp.
realDelete(a) == IF a.keepTmpFiles = "True" THEN FALSE ELSE TRUE

\* _output with the dot cut from the name of the BAM file.
outBam_cuts_dot(outFile) ==
    SubSeq(outFile, 1, Len(outFile) - 4) \o <<"b", "a", "m">>

\* _output: outFile[0:-3] + "bam"
outBam(outFile) ==
    SubSeq(outFile, 1, Len(outFile) - 3) \o <<"b", "a", "m">>

\* _output: the dataset type for XML output.
datasetType(readType, current) ==
    IF readType = "CCS" THEN "ConsensusAlignmentSet" ELSE current

\* _output: the loop over aln.externalResources.
setReferences(resources, refFile) ==
    [i \in 1..Len(resources) |-> [resources[i] EXCEPT !.reference = refFile]]

(***************************************************************************)
(* The collaborators of the runner: the temporary file manager, the        *)
(* aligner, the filter and the BAM post-processing service.                *)
(***************************************************************************)
TmpRoot == <<"/", "t", "/">>

\* TempFileManager.RegisterNewTmpFile: a new path under the scratch
\* directory; the file is not created.
RegisterNewTmpFile(suffix) == TmpRoot \o <<"f">> \o suffix

\* The path the aligner writes its alignments to.
AlignerSamOut == TmpRoot \o <<"a">>

\* The BAM file the post-processing service leaves: the output itself, or
\* the BAM file beside an XML output.
PostBam(outFile) ==
    IF getFileFormat(outFile) = "XML" THEN real_ppath(outBam(outFile)) ELSE real_ppath(outFile)

\* The filesystem with the files and links named in paths removed.
without(f, paths) == [q \in DOMAIN f \ paths |-> f[q]]

(***************************************************************************)
(* SpecPath: real_ppath, real_upath and getFileFormat applied to a path    *)
(* and to each other's results.                                            *)
(***************************************************************************)
PathAlphabet == {"/", ".", " ", "\\", "a"}

RECURSIVE StringsUpTo(_)
\* Every non-empty sequence over PathAlphabet of at most n characters.
StringsUpTo(n) ==
    IF n = 0 THEN {}
    ELSE UNION {[1..k -> PathAlphabet] : k \in 1..n}

\* Paths with the extensions, directories and trailing segments the file
\* utilities distinguish.
PathDirs ==
    {<<>>, <<"/">>, <<"d", "/">>, <<"/", "d", " ", "e", "/">>, <<"/", "d", "\\", " ", "e", "/">>, <<".", "/">>, <<".", ".", "/">>, <<"~", "/">>, <<"~", "u", "/">>}

PathStems == {<<"a">>, <<"a", " ">>, <<"a", "\\", " ">>, <<>>, <<".">>}

PathExts ==
    {<<>>, <<".", "s", "a", "m">>, <<".", "S", "A", "M">>, <<".", "b", "a", "m">>, <<".", "s", "a">>, <<".", "f", "a">>, <<".", "f", "o", "f", "n">>, <<".", "x", "m", "l">>,
     <<".", "X", "m", "l">>, <<".", "c", "m", "p", ".", "h", "5">>, <<".", "b", "a", "s", ".", "h", "5">>, <<".", "b", "a", "x", ".", "H", "5">>, <<".", "h", "5">>, <<".", "s", "a", "m", " ">>,
     <<".", "s", "a", "m", "\\", " ">>, <<".", " ", "s", "a", "m">>, <<".", "t", "x", "t">>}

PathTrailers == {<<>>, <<"/">>, <<"/", ".">>, <<"/", ".", ".">>}

StructuredPaths ==
    {d \o s \o e \o t : d \in PathDirs, s \in PathStems, e \in PathExts, t \in PathTrailers}
        \ {<<>>}

CwdChoices == {<<"/", "w">>, <<"/", "w", " ", "d">>}

Paths == StringsUpTo(MaxPathLen) \cup StructuredPaths \cup {<<"~">>}

PathIdle ==
    /\ pathVals = <<>>
    /\ pathOps = <<>>
    /\ pathFmts = <<>>

NoFofnCall == [called |-> FALSE, name |-> <<>>, exc |-> None, files |-> <<>>]

NoChkCall ==
    [called |-> FALSE, filename |-> <<>>, validFormats |-> {},
     result |-> [exc |-> None, err |-> None, ret |-> <<>>]]

FofnIdle ==
    /\ fofnLines = <<>>
    /\ fofnCall = NoFofnCall
    /\ chkCall = NoChkCall

NoRefSet == [exc |-> None, files |-> <<>>]

NoRefCall ==
    [called |-> FALSE, inRefpath |-> <<>>, result |-> ReferenceError(None, None, <<>>)]

RefIdle ==
    /\ refXml = <<>>
    /\ refSet = NoRefSet
    /\ refCall = NoRefCall

NoDataset ==
    [written |-> FALSE, type |-> None, bam |-> <<>>, resources |-> <<>>, writtenTo |-> <<>>]

RunIdle ==
    /\ args = [algorithm |-> None, useccs |-> None, readType |-> None,
               filterAdapterOnly |-> FALSE, keepTmpFiles |-> "absent"]
    /\ fileNames = [outputFileName |-> <<>>, inputFileFormat |-> None,
                    targetFileName |-> <<>>, alignerSamOut |-> <<>>, filteredSam |-> <<>>]
    /\ output_dataset_type = None
    /\ pc = "idle"
    /\ exc = NoExc
    /\ calls = <<>>
    /\ tmpFiles = {}
    /\ cleaned = "no"
    /\ dataset = NoDataset

PathOpNames == {"real_ppath", "real_upath"}

PathInit ==
    /\ cwd \in CwdChoices
    /\ \E p \in Paths : pathVals = <<p>>
    /\ pathOps = <<>>
    /\ pathFmts = <<>>
    /\ fs = <<>>
    /\ links = <<>>
    /\ FofnIdle
    /\ RunIdle
    /\ RefIdle

Call_real_ppath ==
    /\ Len(pathOps) < MaxCalls
    /\ pathVals' = Append(pathVals, real_ppath(pathVals[Len(pathVals)]))
    /\ pathOps' = Append(pathOps, "real_ppath")
    /\ UNCHANGED <<cwd, pathFmts, fsVars, fofnVars, runVars, refVars>>

Call_real_upath ==
    /\ Len(pathOps) < MaxCalls
    /\ pathVals' = Append(pathVals, real_upath(pathVals[Len(pathVals)]))
    /\ pathOps' = Append(pathOps, "real_upath")
    /\ UNCHANGED <<cwd, pathFmts, fsVars, fofnVars, runVars, refVars>>

Call_getFileFormat ==
    /\ Len(pathFmts) < Len(pathVals)
    /\ pathFmts' = Append(pathFmts, getFileFormat(pathVals[Len(pathFmts) + 1]))
    /\ UNCHANGED <<cwd, pathVals, pathOps, fsVars, fofnVars, runVars, refVars>>

PathNext ==
    \/ Call_real_ppath
    \/ Call_real_upath
    \/ Call_getFileFormat

vars == <<cwd, pathVars, fsVars, fofnVars, runVars, refVars>>

SpecPath == PathInit /\ [][PathNext]_vars

(***************************************************************************)
(* SpecFofn: getFilesFromFOFN and checkInputFile on a filesystem holding   *)
(* a manifest and some of the files it lists.                              *)
(***************************************************************************)
ManifestPath == <<"/", "w", "/", "i", "n", ".", "f", "o", "f", "n">>

FsUniverse == {ManifestPath, <<"/", "w", "/", "a", ".", "f", "a">>, <<"/", "w", "/", "b", ".", "f", "a">>, <<"/", "w", "/", "a", " ", "b", ".", "f", "a">>}

\* Lines of a manifest, as readlines() returns them.
FofnLineChoices ==
    {<<"b", ".", "f", "a", "\n">>, <<"a", ".", "f", "a", "\n">>, <<" ", "b", ".", "f", "a", "\n">>, <<"a", " ", "b", ".", "f", "a", "\n">>, <<"\n">>, <<" ", "\n">>, <<"a", ".", "f", "a">>}

\* Every line readlines() returns ends with a line end, but for the last.
IsFileContent(lines) ==
    \A i \in 1..(Len(lines) - 1) : lines[i][Len(lines[i])] = "\n"

FofnContents ==
    {lines \in UNION {[1..n -> FofnLineChoices] : n \in 0..MaxLines} : IsFileContent(lines)}

FofnNameChoices == {<<"i", "n", ".", "f", "o", "f", "n">>, ManifestPath}

ChkNameChoices == {<<"i", "n", ".", "f", "o", "f", "n">>, <<"/", "w", "/", "a", ".", "f", "a">>, <<"/", "w", "/", "a", "\\", " ", "b", ".", "f", "a">>, <<"/", "w", "/", "b", ".", "t", "x", "t">>}

ValidFormatsChoices == {VALID_INPUT_FORMATS, VALID_REGIONTABLE_FORMATS}

FofnInit ==
    /\ cwd = <<"/", "w">>
    /\ \E S \in SUBSET FsUniverse : fs = [f \in S |-> "data"]
    /\ links = <<>>
    /\ fofnLines \in FofnContents
    /\ ManifestPath \notin DOMAIN fs => fofnLines = <<>>
    /\ fofnCall = NoFofnCall
    /\ chkCall = NoChkCall
    /\ PathIdle
    /\ RunIdle
    /\ RefIdle

Call_getFilesFromFOFN ==
    /\ ~fofnCall.called
    /\ \E name \in FofnNameChoices :
          fofnCall' = IF exists(real_ppath(name))
                      THEN [called |-> TRUE, name |-> name, exc |-> None,
                            files |-> getFilesFromFOFN(name)]
                      ELSE [called |-> TRUE, name |-> name, exc |-> "IOError",
                            files |-> <<>>]
    /\ UNCHANGED <<cwd, pathVars, fsVars, fofnLines, chkCall, runVars, refVars>>

Call_checkInputFile ==
    /\ ~chkCall.called
    /\ \E filename \in ChkNameChoices, validFormats \in ValidFormatsChoices :
          chkCall' = [called |-> TRUE, filename |-> filename,
                      validFormats |-> validFormats,
                      result |-> checkInputFile(filename, validFormats)]
    /\ UNCHANGED <<cwd, pathVars, fsVars, fofnLines, fofnCall, runVars, refVars>>

FofnNext ==
    \/ Call_getFilesFromFOFN
    \/ Call_checkInputFile

SpecFofn == FofnInit /\ [][FofnNext]_vars

(***************************************************************************)
(* SpecRef: checkReferencePath on a filesystem holding a reference         *)
(* repository, whole or in part: <root>/reference.info.xml, the FASTA file *)
(* <root>/s/r.fa, its suffix array <root>/s/r.fa.sa and a dataset          *)
(* <root>/s/r.xml.                                                         *)
(***************************************************************************)
MaxIndexFiles == 2
MaxAnnotations == 2

RefRoots == {<<"/", "w">>, <<"/", "w", " ", "d">>}

RefInfoXml(root) == pathjoin(root, ReferenceInfoName)
RefFasta(root) == pathjoin(root, <<"s", "/", "r", ".", "f", "a">>)
RefSa(root) == pathjoin(root, <<"s", "/", "r", ".", "f", "a", ".", "s", "a">>)
RefDataset(root) == pathjoin(root, <<"s", "/", "r", ".", "x", "m", "l">>)

RefUniverse(root) == {RefInfoXml(root), RefFasta(root), RefSa(root), RefDataset(root)}

RefCwdChoices == {<<"/">>, <<"/", "w">>}

\* Every sequence of at most n elements of S.
SeqsUpTo(S, n) == UNION {[1..k -> S] : k \in 0..n}

\* The index_file children of a reference element.
IndexFileChoices ==
    {[type |-> SomePath(<<"S", "A", "W", "r", "i", "t", "e", "r">>), text |-> <<".", "/", "s", "/", "r", ".", "f", "a", ".", "s", "a">>],
     [type |-> SomePath(<<"s", "a", "w", "r", "i", "t", "e", "r">>), text |-> <<"s", "/", "r", ".", "i", "d", "x">>],
     [type |-> SomePath(<<"b", "w", "t">>), text |-> <<"s", "/", "r", ".", "b", "w", "t">>],
     [type |-> NoPath, text |-> <<"s", "/", "r", ".", "f", "a", ".", "s", "a">>]}

\* The annotation elements of a reference.info.xml.
AnnotationChoices ==
    {[type |-> <<"a", "d", "a", "p", "t", "e", "r">>, file |-> SomePath(<<"a", ".", "g", "f", "f">>)],
     [type |-> <<"a", "d", "a", "p", "t", "e", "r">>, file |-> NoPath],
     [type |-> <<"o", "t", "h", "e", "r">>, file |-> SomePath(<<"o", ".", "g", "f", "f">>)]}

\* The format attribute of the file element.
FormatChoices == {SomePath(<<"t", "e", "x", "t", "/", "f", "a", "s", "t", "a">>), SomePath(<<"T", "e", "x", "t", "/", "F", "a", "s", "t", "a">>), SomePath(<<"t", "e", "x", "t", "/", "p", "l", "a", "i", "n">>), NoPath}

\* The text of the file element: relative to the repository, with and
\* without "./", above the repository, absolute, no FASTA name, empty.
FileTextChoices == {<<"s", "/", "r", ".", "f", "a">>, <<".", "/", "s", "/", "r", ".", "f", "a">>, <<".", ".", "/", "r", ".", "f", "a">>, <<"/", "w", "/", "s", "/", "r", ".", "f", "a">>, <<"s", "/", "r", ".", "t", "x", "t">>, <<>>}

Descriptor(format, text, index_files, annotations) ==
    [wellFormed |-> TRUE, hasFile |-> TRUE, format |-> format, text |-> text,
     index_files |-> index_files, annotations |-> annotations]

\* What a reference.info.xml holds.
DescriptorChoices ==
    {[Descriptor(NoPath, <<>>, <<>>, <<>>) EXCEPT !.wellFormed = FALSE],
     [Descriptor(NoPath, <<>>, <<>>, <<>>) EXCEPT !.hasFile = FALSE]}
    \cup {Descriptor(f, <<"s", "/", "r", ".", "f", "a">>, <<>>, <<>>) : f \in FormatChoices}
    \cup {Descriptor(SomePath(<<"t", "e", "x", "t", "/", "f", "a", "s", "t", "a">>), t, <<[type |-> SomePath(<<"s", "a", "w", "r", "i", "t", "e", "r">>), text |-> <<"s", "/", "r", ".", "f", "a", ".", "s", "a">>]>>, <<>>) :
             t \in FileTextChoices}
    \cup {Descriptor(SomePath(<<"t", "e", "x", "t", "/", "f", "a", "s", "t", "a">>), <<"s", "/", "r", ".", "f", "a">>, i, <<>>) :
             i \in SeqsUpTo(IndexFileChoices, MaxIndexFiles)}
    \cup {Descriptor(SomePath(<<"t", "e", "x", "t", "/", "f", "a", "s", "t", "a">>), <<"s", "/", "r", ".", "f", "a">>, <<[type |-> SomePath(<<"s", "a", "w", "r", "i", "t", "e", "r">>), text |-> <<"s", "/", "r", ".", "f", "a", ".", "s", "a">>]>>, a) :
             a \in SeqsUpTo(AnnotationChoices, MaxAnnotations)}

\* What ReferenceSet(refpath).toFofn() gives for the dataset of a repository:
\* an error, no file, the FASTA file as a path or as a URI, a file that is no
\* FASTA file, two files.
RefSetChoices(root) ==
    {[exc |-> "DataSetError", files |-> <<>>],
     [exc |-> None, files |-> <<>>],
     [exc |-> None, files |-> <<RefFasta(root)>>],
     [exc |-> None, files |-> <<<<"f", "i", "l", "e", ":", "/", "/">> \o RefFasta(root)>>],
     [exc |-> None, files |-> <<pathjoin(root, <<"s", "/", "r", ".", "t", "x", "t">>)>>],
     [exc |-> None, files |-> <<RefFasta(root), pathjoin(root, <<"s", "/", "n", ".", "f", "a">>)>>]}

\* The arguments of checkReferencePath: the files and the directory of a
\* repository, a relative path, a path that does not exist.
RefArgChoices ==
    UNION {{real_upath(RefFasta(root)), real_upath(root), real_upath(RefDataset(root)),
            real_upath(RefSa(root))} : root \in RefRoots}
    \cup {<<"s", "/", "r", ".", "f", "a">>, <<"/", "w", "/", "n", ".", "f", "a">>}

RefInit ==
    /\ cwd \in RefCwdChoices
    /\ links = <<>>
    /\ \E root \in RefRoots :
          /\ \E S \in SUBSET RefUniverse(root) : fs = [f \in S |-> "data"]
          /\ IF RefInfoXml(root) \in DOMAIN fs
             THEN \E d \in DescriptorChoices : refXml = (RefInfoXml(root) :> d)
             ELSE refXml = <<>>
          /\ IF RefDataset(root) \in DOMAIN fs
             THEN refSet \in RefSetChoices(root)
             ELSE refSet = NoRefSet
    /\ refCall = NoRefCall
    /\ PathIdle
    /\ FofnIdle
    /\ RunIdle

Call_checkReferencePath ==
    /\ ~refCall.called
    /\ \E inRefpath \in RefArgChoices :
          refCall' = [called |-> TRUE, inRefpath |-> inRefpath,
                      result |-> checkReferencePath(inRefpath)]
    /\ UNCHANGED <<cwd, pathVars, fsVars, fofnVars, runVars, refXml, refSet>>

RefNext == Call_checkReferencePath

SpecRef == RefInit /\ [][RefNext]_vars

(***************************************************************************)
(* Spec: one run of PBAlignRunner.run().                                   *)
(***************************************************************************)
OutputChoices ==
    {<<"/", "w", "/", "o", ".", "s", "a", "m">>, <<"/", "w", "/", "o", ".", "b", "a", "m">>, <<"/", "w", "/", "o", ".", "x", "m", "l">>, <<"/", "w", "/", "o", ".", "X", "M", "L">>, <<"/", "w", "/", "o", ".", "c", "m", "p", ".", "h", "5">>,
     <<"/", "w", "/", "o", "\\", " ", "p", ".", "s", "a", "m">>, <<"/", "w", "/", "o", "\\", " ", "p", ".", "x", "m", "l">>, <<"/", "w", "/", "o", ".", "t", "x", "t">>}

\* The output paths checkOutputFile accepts.
ValidOutputs ==
    {o \in OutputChoices : isValidOutputFormat(getFileFormat(real_ppath(o)))}

TargetFileName == <<"/", "w", "/", "r", ".", "f", "a">>

OutFormat == getFileFormat(fileNames.outputFileName)

Init ==
    /\ cwd = <<"/", "w">>
    /\ args \in [algorithm : {"blasr", "bowtie", "gmap", "bwa"},
                 useccs : {None, "useccsdenovo"},
                 readType : {"standard", "CCS"},
                 filterAdapterOnly : BOOLEAN,
                 keepTmpFiles : {"absent", "True", "False"}]
    /\ \E o \in ValidOutputs, inFmt \in {"FASTA", "CCS_H5"} :
          fileNames = [outputFileName |-> real_upath(o), inputFileFormat |-> inFmt,
                       targetFileName |-> TargetFileName, alignerSamOut |-> <<>>,
                       filteredSam |-> <<>>]
    \* checkOutputFile has opened the output for appending: it exists, empty.
    /\ fs = (real_ppath(fileNames.outputFileName) :> "empty") @@ (TargetFileName :> "reference")
    /\ links = <<>>
    /\ output_dataset_type \in {"AlignmentSet", "ConsensusAlignmentSet"}
    /\ pc = "createAlignService"
    /\ exc = NoExc
    /\ calls = <<>>
    /\ tmpFiles = {}
    /\ cleaned = "no"
    /\ dataset = NoDataset
    /\ PathIdle
    /\ FofnIdle
    /\ RefIdle

Returned(stage) ==
    /\ pc' = afterStage(stage, OutFormat)
    /\ calls' = Append(calls, [stage |-> stage, ok |-> TRUE])
    /\ exc' = exc

Raised(stage, type, at) ==
    /\ pc' = "failed"
    /\ calls' = Append(calls, [stage |-> stage, ok |-> FALSE])
    /\ exc' = [type |-> type, at |-> at]

\* run(): self._alnService = self._createAlignService(...), which ends with
\* the aligner's checkAvailability().
CreateAlignService ==
    /\ pc = "createAlignService"
    /\ IF createAlignServiceExc(args.algorithm) # None
       THEN Raised("createAlignService", createAlignServiceExc(args.algorithm),
                   "_createAlignService")
       ELSE \E available \in BOOLEAN :
               IF available THEN Returned("createAlignService")
               ELSE Raised("createAlignService", "AlignerError", "checkAvailability")
    /\ UNCHANGED <<cwd, pathVars, fsVars, fofnVars, args, fileNames,
                   output_dataset_type, tmpFiles, cleaned, dataset, refVars>>

\* run(): self._makeSane(self.args, self.fileNames)
MakeSane ==
    /\ pc = "makeSane"
    /\ args' = [args EXCEPT !.readType = makeSaneReadType(args, fileNames)]
    /\ IF makeSaneExc(args', fileNames) # None
       THEN Raised("makeSane", makeSaneExc(args', fileNames), "_makeSane")
       ELSE Returned("makeSane")
    /\ UNCHANGED <<cwd, pathVars, fsVars, fofnVars, fileNames,
                   output_dataset_type, tmpFiles, cleaned, dataset, refVars>>

\* run(): self._alnService.run(); the aligner writes its output, a temporary
\* file, or raises.
AlnRun ==
    /\ pc = "alnRun"
    /\ \E ok \in BOOLEAN :
          IF ok
          THEN /\ Returned("alnRun")
               /\ fileNames' = [fileNames EXCEPT !.alignerSamOut = AlignerSamOut]
               /\ fs' = (AlignerSamOut :> "aligned") @@ fs
               /\ tmpFiles' = tmpFiles \cup {AlignerSamOut}
          ELSE /\ Raised("alnRun", "AlignerError", "_alnService.run")
               /\ UNCHANGED <<fileNames, fs, tmpFiles>>
    /\ UNCHANGED <<cwd, pathVars, links, fofnVars, args, output_dataset_type,
                   cleaned, dataset, refVars>>

\* run(): registers the temporary file of the filter and runs the filter,
\* which leaves there a file of its own or a link to the aligner's output,
\* or raises.
FilterRun ==
    /\ pc = "filter"
    /\ LET filteredSam == RegisterNewTmpFile(filteredSuffix(OutFormat)) IN
       /\ fileNames' = [fileNames EXCEPT !.filteredSam = filteredSam]
       /\ tmpFiles' = tmpFiles \cup {filteredSam}
       /\ \E outcome \in {"file", "link", "raise"} :
             IF outcome = "file"
             THEN /\ Returned("filter")
                  /\ fs' = (filteredSam :> "filtered") @@ fs
                  /\ links' = links
             ELSE IF outcome = "link"
             THEN /\ Returned("filter")
                  /\ links' = (filteredSam :> fileNames.alignerSamOut) @@ links
                  /\ fs' = fs
             ELSE /\ Raised("filter", "FilterError", "_filterService.run")
                  /\ UNCHANGED <<fs, links>>
    /\ UNCHANGED <<cwd, pathVars, fofnVars, args, output_dataset_type, cleaned, dataset, refVars>>

\* run(): BamPostService(...).run(), which sorts and indexes the filtered
\* BAM file into the BAM output, or raises.
BamPost ==
    /\ pc = "bamPost"
    /\ \E ok \in BOOLEAN :
          IF ok
          THEN /\ Returned("bamPost")
               /\ fs' = (PostBam(fileNames.outputFileName) :> "sorted") @@ fs
          ELSE /\ Raised("bamPost", "BamPostError", "BamPostService.run")
               /\ fs' = fs
    /\ UNCHANGED <<cwd, pathVars, links, fofnVars, args, fileNames,
                   output_dataset_type, tmpFiles, cleaned, dataset, refVars>>

\* _output for SAM output: shutil.move(readlink(real_ppath(inSam)),
\* real_ppath(outFile)); only shutil.Error becomes a RuntimeError.
OutputSam(inSam, outFile) ==
    LET link == real_ppath(inSam)
        dst == real_ppath(outFile)
    IN  IF link \notin DOMAIN links
        THEN /\ Raised("output", "OSError", "readlink")
             /\ UNCHANGED <<fs, links>>
        ELSE \E moved \in {"ok", "shutil.Error", "OSError"} :
               IF moved = "ok" /\ links[link] \in DOMAIN fs
               THEN /\ Returned("output")
                    /\ fs' = (dst :> fs[links[link]]) @@ without(fs, {links[link]})
                    /\ links' = links
               ELSE IF moved = "shutil.Error"
               THEN /\ Raised("output", "RuntimeError", "_output")
                    /\ UNCHANGED <<fs, links>>
               ELSE /\ Raised("output", "OSError", "shutil.move")
                    /\ UNCHANGED <<fs, links>>

\* _output for XML output: the dataset over the BAM file, the reference set
\* on each of its external resources, written to outFile.
OutputXml(refFile, outFile, readType) ==
    LET type == datasetType(readType, output_dataset_type) IN
    /\ output_dataset_type' = type
    /\ links' = links
    /\ \E n \in 1..MaxResources, outcome \in {"ok", "open", "write"} :
          IF outcome = "open"
          THEN /\ Raised("output", "DataSetError", "_output_dataset_type")
               /\ UNCHANGED <<fs, dataset>>
          ELSE IF outcome = "write"
          THEN /\ Raised("output", "DataSetError", "aln.write")
               /\ UNCHANGED <<fs, dataset>>
          ELSE /\ Returned("output")
               /\ dataset' = [written |-> TRUE, type |-> type,
                              bam |-> real_ppath(outBam(outFile)),
                              resources |-> setReferences([i \in 1..n |-> [reference |-> None]],
                                                          refFile),
                              writtenTo |-> outFile]
               /\ fs' = (outFile :> "descriptor") @@ fs

\* run(): self._output(inSam=filteredSam, refFile=targetFileName,
\* outFile=outputFileName, readType=args.readType)
Output ==
    /\ pc = "output"
    /\ IF OutFormat = "SAM"
       THEN /\ OutputSam(fileNames.filteredSam, fileNames.outputFileName)
            /\ UNCHANGED <<output_dataset_type, dataset>>
       ELSE IF OutFormat = "CMP_H5"
       THEN /\ Raised("output", "IOError", "_output")
            /\ UNCHANGED <<fs, links, output_dataset_type, dataset>>
       ELSE IF OutFormat = "XML"
       THEN OutputXml(fileNames.targetFileName, fileNames.outputFileName, args.readType)
       ELSE /\ Returned("output")
            /\ UNCHANGED <<fs, links, output_dataset_type, dataset>>
    /\ UNCHANGED <<cwd, pathVars, fofnVars, args, fileNames, tmpFiles, cleaned, refVars>>

\* run(): self._cleanUp(realDelete), then return 0.  With realDelete the
\* manager removes every path it tracks.
CleanUp ==
    /\ pc = "cleanUp"
    /\ Returned("cleanUp")
    /\ IF realDelete(args)
       THEN /\ cleaned' = "deleted"
            /\ fs' = without(fs, tmpFiles)
            /\ links' = without(links, tmpFiles)
            /\ tmpFiles' = {}
       ELSE /\ cleaned' = "kept"
            /\ tmpFiles' = {}
            /\ UNCHANGED <<fs, links>>
    /\ UNCHANGED <<cwd, pathVars, fofnVars, args, fileNames, output_dataset_type, dataset, refVars>>

Next ==
    \/ CreateAlignService
    \/ MakeSane
    \/ AlnRun
    \/ FilterRun
    \/ BamPost
    \/ Output
    \/ CleanUp

Spec == Init /\ [][Next]_vars

(***************************************************************************)
(* Properties of the run (Spec).                                           *)
(***************************************************************************)
InCalls(stage) == \E i \in 1..Len(calls) : calls[i].stage = stage

Ended == pc \in {"done", "failed"}

\* C1: no run ends, returned or failed, without _cleanUp having been called.
C1_CleanUpBeforeEnd ==
    Ended => cleaned # "no"

\* The order of the stages: Validating follows the creation of the aligner,
\* PostProcessing is for BAM and XML output.
StageAfter(stage) ==
    CASE stage = "createAlignService" -> "makeSane"
      [] stage = "makeSane" -> "alnRun"
      [] stage = "alnRun" -> "filter"
      [] stage = "filter" -> IF OutFormat \in {"BAM", "XML"} THEN "bamPost" ELSE "output"
      [] stage = "bamPost" -> "output"
      [] stage = "output" -> "cleanUp"
      [] stage = "cleanUp" -> "none"

\* C2: the stages run in the order Validating, Aligning, Filtering,
\* PostProcessing (BAM and XML output), Emitting, CleaningUp, each only after
\* the one before it has returned; a run is done after CleaningUp.
C2_StagesInOrder ==
    /\ \A i \in 1..Len(calls) :
          /\ i = 1 => calls[i].stage = "createAlignService"
          /\ i > 1 => /\ calls[i - 1].ok
                      /\ calls[i].stage = StageAfter(calls[i - 1].stage)
    /\ pc = "done" => (calls # <<>> /\ calls[Len(calls)] = [stage |-> "cleanUp", ok |-> TRUE])

\* A run with BAM or XML output is done, all seven stages executed.
C2_Witness ==
    /\ pc = "done"
    /\ Len(calls) = 7
    /\ calls[5].stage = "bamPost"

\* The configurations _makeSane rejects.
RejectedConfig ==
    \/ OutFormat = "CMP_H5"
    \/ OutFormat \in {"BAM", "XML"} /\ args.algorithm # "blasr"
    \/ OutFormat \in {"BAM", "XML"} /\ args.filterAdapterOnly

NoneAfterValidating ==
    ~InCalls("alnRun") /\ ~InCalls("filter") /\ ~InCalls("bamPost") /\ ~InCalls("output")

\* C3 as stated: a rejected configuration fails by the error _makeSane
\* raises, nothing else decides the outcome first, and the aligner's run, the
\* filter and the emission are not invoked.
C3_RejectedByValidating ==
    RejectedConfig =>
        /\ NoneAfterValidating
        /\ pc # "done"
        /\ pc = "failed" => (exc.at = "_makeSane" /\ exc.type \in {"ValueError", "IOError"})

\* C3: a rejected configuration never reaches the aligner's run, the filter
\* or the emission; the run fails in _makeSane with the configuration error
\* when the creation of the aligner, checkAvailability included, returned,
\* and otherwise with the error of that creation.
C3_RejectedBeforeAligning ==
    RejectedConfig =>
        /\ NoneAfterValidating
        /\ pc # "done"
        /\ pc = "failed" => exc.at \in {"_createAlignService", "checkAvailability", "_makeSane"}
        /\ InCalls("makeSane") =>
              /\ pc = "failed"
              /\ exc.at = "_makeSane"
              /\ exc.type = IF OutFormat = "CMP_H5" THEN "IOError" ELSE "ValueError"

\* BAM output with bowtie has been rejected by _makeSane.
C3_Witness ==
    /\ OutFormat = "BAM"
    /\ args.algorithm = "bowtie"
    /\ pc = "failed"
    /\ exc = [type |-> "ValueError", at |-> "_makeSane"]

\* C4: for SAM output a successful emission leaves the filtered alignments at
\* the output path and nothing at the temporary path, and a failed emission
\* raises the RuntimeError of _output.
C4_SamMovedOrEmitError ==
    OutFormat = "SAM" =>
        /\ pc = "cleanUp" =>
              /\ real_ppath(fileNames.outputFileName) \in DOMAIN fs
              /\ fs[real_ppath(fileNames.outputFileName)] \in {"aligned", "filtered"}
              /\ ~exists(fileNames.filteredSam)
        /\ (pc = "failed" /\ calls[Len(calls)].stage = "output") => exc.type = "RuntimeError"

IsCanonical(p) == startswith(p, <<"/">>) /\ normpath(p) = p

HasEscapedSpace(p) ==
    \E i \in 1..(Len(p) - 1) : p[i] = "\\" /\ p[i + 1] = " "

HasConsecutiveEscapedSpaces(p) ==
    \E i \in 1..(Len(p) - 3) : SubSeq(p, i, i + 3) = <<"\\", " ", "\\", " ">>

\* Every space of p is escaped, by one backslash that is not itself preceded
\* by a backslash.
SpacesEscapedOnce(p) ==
    \A i \in 1..Len(p) :
        p[i] = " " => /\ i > 1
                      /\ p[i - 1] = "\\"
                      /\ (i > 2 => p[i - 2] # "\\")

\* C6 as stated: for every absolute, normalized path p without consecutive
\* escaped spaces, real_upath(real_ppath(p)) = p and real_ppath(real_upath(p)) = p.
C6_RoundTripBothWays ==
    \A i \in 1..(Len(pathOps) - 1) :
        (/\ IsCanonical(pathVals[i])
         /\ ~HasConsecutiveEscapedSpaces(pathVals[i])
         /\ pathOps[i] # pathOps[i + 1])
        => pathVals[i + 2] = pathVals[i]

\* C6: for an absolute, normalized path p, real_ppath(real_upath(p)) = p when p
\* holds no escaped space (literal spaces included), and
\* real_upath(real_ppath(p)) = p when every space of p is escaped exactly once.
C6_RoundTripByStyle ==
    \A i \in 1..(Len(pathOps) - 1) :
        IsCanonical(pathVals[i]) =>
            /\ (/\ pathOps[i] = "real_upath"
                /\ pathOps[i + 1] = "real_ppath"
                /\ ~HasEscapedSpace(pathVals[i]))
               => pathVals[i + 2] = pathVals[i]
            /\ (/\ pathOps[i] = "real_ppath"
                /\ pathOps[i + 1] = "real_upath"
                /\ SpacesEscapedOnce(pathVals[i]))
               => pathVals[i + 2] = pathVals[i]

\* A path with an escaped space has been unescaped and escaped again, and is
\* the path it was.
C6_Witness ==
    /\ pathOps = <<"real_ppath", "real_upath">>
    /\ IsCanonical(pathVals[1])
    /\ HasEscapedSpace(pathVals[1])
    /\ SpacesEscapedOnce(pathVals[1])
    /\ pathVals[2] # pathVals[1]
    /\ pathVals[3] = pathVals[1]

Perms(n) ==
    {f \in [1..n -> 1..n] : \A i, j \in 1..n : i # j => f[i] # f[j]}

\* The entries of the manifest: its lines stripped and canonicalized.
IsPermutationOfEntries(files) ==
    /\ Len(files) = Len(fofnLines)
    /\ \E pi \in Perms(Len(files)) :
          \A i \in 1..Len(files) : files[i] = real_upath(strip(fofnLines[pi[i]]))

UsableLines == {i \in 1..Len(fofnLines) : strip(fofnLines[i]) # <<>>}

\* C8 as stated: the result is a permutation of the stripped, canonicalized
\* lines and is non-decreasing.
C8_ResultSorted ==
    (fofnCall.called /\ fofnCall.exc = None) =>
        /\ IsPermutationOfEntries(fofnCall.files)
        /\ \A i, j \in 1..Len(fofnCall.files) :
              i < j => strLeq(fofnCall.files[i], fofnCall.files[j])

\* C8: the result holds the stripped, canonicalized lines in the order of the
\* lines as read (before stripping), sorted by code point.
C8_ResultInRawLineOrder ==
    (fofnCall.called /\ fofnCall.exc = None) =>
        /\ Len(fofnCall.files) = Len(fofnLines)
        /\ \E pi \in Perms(Len(fofnLines)) :
              /\ \A i, j \in 1..Len(fofnLines) :
                    i < j => strLeq(fofnLines[pi[i]], fofnLines[pi[j]])
              /\ \A i \in 1..Len(fofnLines) :
                    fofnCall.files[i] = real_upath(strip(fofnLines[pi[i]]))

\* The manifest b.fa, a.fa has been expanded to /w/a.fa, /w/b.fa.
C8_Witness ==
    /\ fofnCall.called
    /\ fofnLines = <<<<"b", ".", "f", "a", "\n">>, <<"a", ".", "f", "a", "\n">>>>
    /\ fofnCall.files = <<<<"/", "w", "/", "a", ".", "f", "a">>, <<"/", "w", "/", "b", ".", "f", "a">>>>

\* checkInputFile was called on a manifest that exists and whose format is allowed.
ManifestChecked ==
    /\ chkCall.called
    /\ getFileFormat(real_ppath(chkCall.filename)) = "FOFN"
    /\ "FOFN" \in chkCall.validFormats
    /\ exists(real_ppath(chkCall.filename))

\* C9: expanding a manifest yields no entry for a blank line, and validating
\* a manifest without a usable line fails with the manifest-empty error.
C9_BlankLinesIgnored ==
    /\ (fofnCall.called /\ fofnCall.exc = None) =>
           Len(fofnCall.files) = Cardinality(UsableLines)
    /\ (ManifestChecked /\ UsableLines = {}) => chkCall.result.err = "empty"

\* C10: checkInputFile fails with the unsupported-format error exactly when
\* the format is not allowed, with the missing-file error exactly when the
\* format is allowed and the path or an entry of the manifest does not exist,
\* and otherwise returns the canonical path (manifests with a usable line on
\* every line).
C10_CheckInputFile ==
    LET fn == real_ppath(chkCall.filename)
        fmt == getFileFormat(fn)
        r == chkCall.result
        allowed == fmt \in chkCall.validFormats
        entryMissing ==
            \E i \in 1..Len(fofnLines) : ~exists(real_ppath(strip(fofnLines[i])))
        missing == ~exists(fn) \/ (fmt = "FOFN" /\ entryMissing)
    IN  (/\ chkCall.called
         /\ ManifestChecked => (fofnLines # <<>> /\ Cardinality(UsableLines) = Len(fofnLines)))
        => /\ r.err = "format" <=> ~allowed
           /\ r.err = "missing" <=> (allowed /\ missing)
           /\ (allowed /\ ~missing) => (r.exc = None /\ r.ret = real_upath(chkCall.filename))

(***************************************************************************)
(* PostProcessing and the temporary file of the filter (run).              *)
(***************************************************************************)
endswith(s, suffix) ==
    /\ Len(s) >= Len(suffix)
    /\ SubSeq(s, Len(s) - Len(suffix) + 1, Len(s)) = suffix

FilterReturned == \E i \in 1..Len(calls) : calls[i] = [stage |-> "filter", ok |-> TRUE]

\* PostProcessing is entered exactly when the output is BAM or XML and the
\* filter has returned, at most once, never for SAM output, and comes before
\* Emitting.
PostProcessingEntry ==
    /\ InCalls("bamPost") => (OutFormat \in {"BAM", "XML"} /\ FilterReturned)
    /\ (OutFormat \in {"BAM", "XML"} /\ FilterReturned) => (InCalls("bamPost") \/ pc = "bamPost")
    /\ OutFormat = "SAM" => (~InCalls("bamPost") /\ pc # "bamPost")
    /\ Cardinality({i \in 1..Len(calls) : calls[i].stage = "bamPost"}) <= 1
    /\ \A i \in 1..Len(calls) :
          (calls[i].stage = "output" /\ OutFormat \in {"BAM", "XML"})
              => \E j \in 1..(i - 1) : calls[j] = [stage |-> "bamPost", ok |-> TRUE]

FilterRegistered == InCalls("filter")

\* C15 as stated: PostProcessing is entered exactly when the output is BAM or
\* XML and the filter has returned, at most once and before Emitting, and the
\* temporary file registered for the filter ends in ".bam" exactly in the runs
\* that enter PostProcessing and in ".sam" in every other run.
C15_SuffixBamIffPostProcessing ==
    /\ PostProcessingEntry
    /\ (Ended /\ FilterRegistered)
          => /\ fileNames.filteredSam \in {RegisterNewTmpFile(<<".", "b", "a", "m">>), RegisterNewTmpFile(<<".", "s", "a", "m">>)}
             /\ endswith(fileNames.filteredSam, <<".", "b", "a", "m">>) <=> InCalls("bamPost")
             /\ endswith(fileNames.filteredSam, <<".", "s", "a", "m">>) <=> ~InCalls("bamPost")

\* C15: PostProcessing is entered exactly when the output is BAM or XML and
\* the filter has returned, at most once and before Emitting; the temporary
\* file registered for the filter ends in ".bam" exactly when the output is
\* BAM or XML, whether the filter then returns or raises, and in ".sam"
\* otherwise; no file is registered for the filter before the filter stage.
C15_SuffixBamIffBamOrXmlOutput ==
    /\ PostProcessingEntry
    /\ FilterRegistered
          => /\ fileNames.filteredSam \in {RegisterNewTmpFile(<<".", "b", "a", "m">>), RegisterNewTmpFile(<<".", "s", "a", "m">>)}
             /\ endswith(fileNames.filteredSam, <<".", "b", "a", "m">>) <=> OutFormat \in {"BAM", "XML"}
             /\ endswith(fileNames.filteredSam, <<".", "s", "a", "m">>) <=> OutFormat \notin {"BAM", "XML"}
    /\ ~FilterRegistered => fileNames.filteredSam = <<>>

\* A run with XML output is done: PostProcessing ran between the filter and
\* Emitting, on a filtered file that ends in ".bam".
C15_Witness ==
    /\ pc = "done"
    /\ OutFormat = "XML"
    /\ InCalls("bamPost")
    /\ endswith(fileNames.filteredSam, <<".", "b", "a", "m">>)

(***************************************************************************)
(* The subtype of an h5 container (getFileFormat).                         *)
(***************************************************************************)
\* The format each penultimate extension segment of an ".h5" path stands for.
H5SubtypeOfSegment(seg) ==
    CASE seg = <<".", "p", "l", "s">> -> "PLS_H5"
      [] seg = <<".", "p", "l", "x">> -> "PLX_H5"
      [] seg = <<".", "b", "a", "s">> -> "BAS_H5"
      [] seg = <<".", "b", "a", "x">> -> "BAX_H5"
      [] seg = <<".", "c", "m", "p">> -> "CMP_H5"
      [] seg = <<".", "r", "g", "n">> -> "RGN_H5"
      [] seg = <<".", "c", "c", "s">> -> "CCS_H5"
      [] OTHER -> "UNKNOWN"

\* C16: a path whose last extension is ".h5" in some case classifies by its
\* penultimate extension segment, each recognized segment as its own format:
\* .pls PLS_H5, .plx PLX_H5, .bas BAS_H5, .bax BAX_H5, .cmp CMP_H5, .rgn RGN_H5,
\* .ccs CCS_H5, and any other segment UNKNOWN.
C16_H5SubtypeBySegment ==
    \A i \in 1..Len(pathFmts) :
        LET base == splitext(pathVals[i])[1]
            ext == lower(splitext(pathVals[i])[2])
        IN  ext = <<".", "h", "5">> => pathFmts[i] = H5SubtypeOfSegment(lower(splitext(base)[2]))

(***************************************************************************)
(* The reference checkReferencePath resolves.                              *)
(***************************************************************************)
RefResult == refCall.result

RefReturned == refCall.called /\ RefResult.exc = None

\* The argument, as a path of the filesystem.
RefArgument == real_ppath(refCall.inRefpath)

\* The reference.info.xml the argument stands for: two levels above a FASTA
\* or XML argument, inside any other.
CandidateDescriptor ==
    IF getFileFormat(RefArgument) \in {"FASTA", "XML"}
    THEN pathjoin(dirname(dirname(RefArgument)), ReferenceInfoName)
    ELSE pathjoin(RefArgument, ReferenceInfoName)

DescriptorDir == dirname(CandidateDescriptor)

\* The dataset of an XML argument enumerates exactly one reference.
DatasetOk ==
    getFileFormat(RefArgument) = "XML" => (refSet.exc = None /\ Len(refSet.files) = 1)

\* The argument exists and, a dataset, enumerates one reference.
RefArgumentOk == refCall.called /\ isExist(RefArgument) /\ DatasetOk

\* The candidate descriptor exists and parses.
DescriptorParsed == ReferenceInfo(CandidateDescriptor).exc = None

\* The FASTA file the argument itself identifies.
DirectFasta ==
    IF getFileFormat(RefArgument) = "FASTA" THEN SomePath(RefArgument)
    ELSE IF getFileFormat(RefArgument) = "XML" THEN SomePath(stripScheme(refSet.files[1]))
    ELSE NoPath

\* A path the descriptor names, resolved against the descriptor's directory.
FromDescriptorDir(text) == real_upath(pathjoin(DescriptorDir, text))

RECURSIVE LastSawriter(_)
\* The text of the last index_file of type sawriter.
LastSawriter(nodes) ==
    IF Len(nodes) = 0 THEN NoPath
    ELSE IF lower(nodes[Len(nodes)].type.path) = <<"s", "a", "w", "r", "i", "t", "e", "r">>
    THEN SomePath(FromDescriptorDir(nodes[Len(nodes)].text))
    ELSE LastSawriter(SubSeq(nodes, 1, Len(nodes) - 1))

RECURSIVE FirstAdapter(_)
\* The file of the first annotation of type adapter.
FirstAdapter(annotations) ==
    IF Len(annotations) = 0 THEN NoPath
    ELSE IF annotations[1].type = <<"a", "d", "a", "p", "t", "e", "r">>
    THEN SomePath(FromDescriptorDir(annotations[1].file.path))
    ELSE FirstAdapter(Tail(annotations))

\* The files a parsed descriptor names.
NamedFasta == SomePath(FromDescriptorDir(refXml[CandidateDescriptor].text))
NamedIndex == LastSawriter(refXml[CandidateDescriptor].index_files)
NamedAnnotation == FirstAdapter(refXml[CandidateDescriptor].annotations)

\* C11: a call that returns has isFromRepository true exactly when the
\* candidate descriptor exists and parses; then the FASTA file and the
\* annotation file returned are the ones the descriptor names, resolved
\* against the descriptor's directory whatever the working directory is, and
\* the index file returned, when there is one, is the one the descriptor names.
C11_RepositoryFilesFromDescriptor ==
    RefReturned =>
        /\ RefResult.isWithinRepository <=> DescriptorParsed
        /\ RefResult.isWithinRepository =>
              /\ RefResult.fastaFile = NamedFasta
              /\ RefResult.sawriterFile \in {NoPath, NamedIndex}
              /\ RefResult.adapterGffFile = NamedAnnotation

\* C12 as stated: when the candidate descriptor is missing or does not parse,
\* no descriptor error leaves the call; an argument that identifies a FASTA
\* file (a FASTA file, a dataset of one reference) gives isFromRepository
\* false, that file and no index; any other argument fails with the
\* reference-not-found error.
C12_FallbackToDirectFasta ==
    (RefArgumentOk /\ ~DescriptorParsed) =>
        IF DirectFasta.some
        THEN /\ RefResult.exc = None
             /\ ~RefResult.isWithinRepository
             /\ RefResult.fastaFile = SomePath(real_upath(DirectFasta.path))
             /\ RefResult.sawriterFile = NoPath
        ELSE RefResult.exc = "IOError" /\ RefResult.err = "not-found"

\* C12: when the candidate descriptor is missing or does not parse, no
\* descriptor error leaves the call; an argument that identifies a file
\* classified FASTA gives isFromRepository false, that file and no index; a
\* dataset whose one reference is not classified FASTA fails with the
\* invalid-reference error; an argument that identifies no file fails with
\* the reference-not-found error.
C12_FallbackToDirectFastaIfFasta ==
    (RefArgumentOk /\ ~DescriptorParsed) =>
        IF DirectFasta.some /\ getFileFormat(DirectFasta.path) = "FASTA"
        THEN /\ RefResult.exc = None
             /\ ~RefResult.isWithinRepository
             /\ RefResult.fastaFile = SomePath(real_upath(DirectFasta.path))
             /\ RefResult.sawriterFile = NoPath
             /\ RefResult.adapterGffFile = NoPath
        ELSE IF DirectFasta.some
        THEN RefResult.exc = "IOError" /\ RefResult.err = "invalid"
        ELSE RefResult.exc = "IOError" /\ RefResult.err = "not-found"

\* A FASTA file under a reference.info.xml that is there and does not parse
\* has been resolved to itself.
C12_Witness ==
    /\ RefReturned
    /\ getFileFormat(RefArgument) = "FASTA"
    /\ CandidateDescriptor \in DOMAIN fs
    /\ ~DescriptorParsed
    /\ ~RefResult.isWithinRepository
    /\ RefResult.fastaFile = SomePath(real_upath(RefArgument))

\* An index file that is classified SA and exists.
UsableIndex(index) ==
    index.some /\ getFileFormat(index.path) = "SA" /\ exists(real_ppath(index.path))

\* C13: the index file a call returns is None or a file that is classified SA
\* and exists; the index a parsed descriptor names is returned when it is
\* classified SA and exists, spaces in its path or not, and is None otherwise,
\* the call returning all the same.
C13_IndexUsableOrNone ==
    /\ RefReturned => (RefResult.sawriterFile.some => UsableIndex(RefResult.sawriterFile))
    /\ (RefReturned /\ RefResult.isWithinRepository) =>
          RefResult.sawriterFile = IF UsableIndex(NamedIndex) THEN NamedIndex ELSE NoPath
    /\ (RefArgumentOk /\ DescriptorParsed
            /\ getFileFormat(ReferenceInfo(CandidateDescriptor).refFastaFile.path) = "FASTA")
          => RefReturned

\* The FASTA file of the call before its format is tested: the descriptor's,
\* or the one the argument identifies.
FinalFasta ==
    IF DescriptorParsed THEN ReferenceInfo(CandidateDescriptor).refFastaFile ELSE DirectFasta

\* C14: the FASTA file of every bundle returned is present and classified
\* FASTA, and a call whose FASTA file, from the descriptor or from the
\* argument, is not classified FASTA fails with the invalid-reference error.
C14_FastaPresentAndFasta ==
    /\ RefReturned =>
          /\ RefResult.fastaFile.some
          /\ getFileFormat(RefResult.fastaFile.path) = "FASTA"
    /\ (RefArgumentOk /\ FinalFasta.some /\ getFileFormat(FinalFasta.path) # "FASTA")
          => (RefResult.exc = "IOError" /\ RefResult.err = "invalid")

\* A dataset inside a repository has been resolved to the FASTA file of the
\* repository's descriptor.
C14_Witness ==
    /\ RefReturned
    /\ getFileFormat(RefArgument) = "XML"
    /\ RefResult.isWithinRepository
    /\ RefResult.fastaFile.some
    /\ getFileFormat(RefResult.fastaFile.path) = "FASTA"

=============================================================================
